---------------------------- MODULE Spec2Model ----------------------------
(***************************************************************************)
(* Master side of Modbus over Serial Line (Modbus_OSL.c): the master       *)
(* transaction state machine, its retry tracker, the timer-2 and UART-1    *)
(* interrupt handlers, and the parts of the RTU reception module and of    *)
(* the application module that Modbus_OSL.c calls.                         *)
(*                                                                         *)
(* The poll loop (Modbus_OSL_Serial_Comm) is one thread whose position is  *)
(* pc; the interrupt handlers are atomic actions that may run between any  *)
(* two steps of the poll loop.  Steps of the poll loop are merged only     *)
(* where every handler commutes with them.                                 *)
(***************************************************************************)
EXTENDS Integers, Sequences, FiniteSets, TLC

(* ------------------------------ bounds -------------------------------- *)

\* Largest value of the Attempts argument of Modbus_OSL_Init that is tried.
MaxAttemptsArg == 2
\* Capacity of the application's outbound request queue.
MaxQueue == 1
\* Length in characters of the frames the slaves put on the line.
MaxRx == 4

(* ------------------------- inputs of the model ------------------------ *)

\* enum Baud: the rates the switch statements name, 19200 and BDEFAULT (0).
BaudValues == {0, 1200, 2400, 4800, 9600, 19200}
\* The rate the transaction machine is explored with; the rate decides the
\* counts loaded into timer 2 and nothing else.
LineBauds == {9600}
\* enum Modbus_OSL_Modes as passed to Modbus_OSL_Init.
ModeValues == {"MDEFAULT", "MODBUS_OSL_MODE_RTU", "MODBUS_OSL_MODE_ASCII"}
\* Requests the application queues: a broadcast and a unicast to slave 1.
Requests == { [Slave |-> 0, pdu |-> <<6>>], [Slave |-> 1, pdu |-> <<3>>] }
\* Interrupt status values UARTIntStatus can return to UART1IntHandler.
UartStatus == {"UART_INT_RX", "UART_INT_PE", "UART_INT_RX_PE"}

(* --------------------------- byte arithmetic -------------------------- *)

U8(n) == n % 256
\* 32-bit unsigned: the low and the high half-word, each modulo 2^16.
U32(n) == (n % 65536) + 65536 * ((n \div 65536) % 65536)

\* Bitwise exclusive or of two 16-bit values, bit by bit.
Xor(a, b) ==
  LET bit(p) == (((a \div p) + (b \div p)) % 2) * p
  IN  bit(1) + bit(2) + bit(4) + bit(8) + bit(16) + bit(32) + bit(64) + bit(128)
      + bit(256) + bit(512) + bit(1024) + bit(2048) + bit(4096) + bit(8192)
      + bit(16384) + bit(32768)

\* n shifts of the CRC register; the register is evaluated once, as c.
RECURSIVE CRCShift(_, _)
CRCShift(crc, n) ==
  CHOOSE r \in { IF n = 0 THEN c
                 ELSE CRCShift(IF c % 2 = 1 THEN Xor(c \div 2, 40961) ELSE c \div 2, n - 1)
                 : c \in {crc} } : TRUE

\* The CRC register after the bytes of s, starting from crc: byte by byte,
\* the first half of s before the second one.
RECURSIVE CRC16From(_, _)
CRC16From(crc, s) ==
  IF s = <<>> THEN crc
  ELSE IF Len(s) = 1 THEN CRCShift(Xor(crc, Head(s)), 8)
  ELSE LET h == Len(s) \div 2
       IN  CHOOSE r \in { CRC16From(c, SubSeq(s, h + 1, Len(s)))
                          : c \in {CRC16From(crc, SubSeq(s, 1, h))} } : TRUE

\* Modbus CRC16 (reflected polynomial 0xA001, initial value 0xFFFF).
CRC16(s) == CRC16From(65535, s)
CRCLo(s) == CRC16(s) % 256
CRCHi(s) == CRC16(s) \div 256

Front(s) == SubSeq(s, 1, Len(s) - 1)

(* ------------------------------ state --------------------------------- *)

VARIABLES
  \* statics of Modbus_OSL.c
  Modbus_OSL_Baudrate, Modbus_OSL_Timeout_R, Modbus_OSL_Timeout_B,
  Modbus_OSL_Mode, Modbus_OSL_Frame, Modbus_OSL_Processing_Flag,
  Modbus_OSL_Forward_Flag, Modbus_OSL_Attempt, Modbus_OSL_Max_Attempts,
  Modbus_OSL_Expected_Slave, Modbus_OSL_Req_ADU, Modbus_OSL_L_Req_ADU,
  Modbus_OSL_MainState, Modbus_OSL_State,
  \* hardware: timer 2 (response/broadcast), timer 0 (3.5T), timer 1 (1.5T),
  \* the last frame put on the line, and the processor stuck in the fatal loop
  Timer2_On, Timer2_Load, T35_On, T15_On, wire, halted,
  \* RTU reception module
  RxBuf,
  \* application module
  fifo, curReq, App_Msg,
  \* poll loop: position, local Modbus_OSL_Slave, last return value
  pc, rcbSlave, ret,
  \* observations: the handler that took the last step, and, for the request
  \* dequeued last, its transmissions, no-response notifications, deliveries,
  \* and whether it is still unsettled
  ev, txCount, nrCount, dlvCount, inflight,
  \* observation: the frame in the reception buffer was completed while the
  \* engine was not in WAITREPLY
  lateFrame,
  \* the argument of the call of Modbus_Fatal_Error the processor is stuck
  \* in (0: none), and LED1 (bit 0 of GPIO port F)
  fatalCode, led1

oslVars == <<Modbus_OSL_Baudrate, Modbus_OSL_Timeout_R, Modbus_OSL_Timeout_B,
             Modbus_OSL_Mode, Modbus_OSL_Frame, Modbus_OSL_Processing_Flag,
             Modbus_OSL_Forward_Flag, Modbus_OSL_Attempt, Modbus_OSL_Max_Attempts,
             Modbus_OSL_Expected_Slave, Modbus_OSL_Req_ADU, Modbus_OSL_L_Req_ADU,
             Modbus_OSL_MainState, Modbus_OSL_State>>
hwVars == <<Timer2_On, Timer2_Load, T35_On, T15_On, wire, halted>>
appVars == <<fifo, curReq, App_Msg>>
pollVars == <<pc, rcbSlave, ret>>
obsVars == <<ev, txCount, nrCount, dlvCount, inflight, lateFrame>>
haltVars == <<fatalCode, led1>>
vars == <<oslVars, hwVars, RxBuf, appVars, pollVars, obsVars, haltVars>>

cfgVars == <<Modbus_OSL_Baudrate, Modbus_OSL_Timeout_R, Modbus_OSL_Timeout_B,
             Modbus_OSL_Mode, Modbus_OSL_Max_Attempts>>

\* Statics are zero before Modbus_OSL_Init runs; interrupts are disabled.
Init ==
  /\ Modbus_OSL_Baudrate = 0 /\ Modbus_OSL_Timeout_R = 0 /\ Modbus_OSL_Timeout_B = 0
  /\ Modbus_OSL_Mode = "MODBUS_OSL_MODE_RTU"
  /\ Modbus_OSL_Frame = "MODBUS_OSL_Frame_OK"
  /\ Modbus_OSL_Processing_Flag = 0 /\ Modbus_OSL_Forward_Flag = 0
  /\ Modbus_OSL_Attempt = 0 /\ Modbus_OSL_Max_Attempts = 0
  /\ Modbus_OSL_Expected_Slave = 0
  /\ Modbus_OSL_Req_ADU = <<>> /\ Modbus_OSL_L_Req_ADU = 0
  /\ Modbus_OSL_MainState = "MODBUS_OSL_INITIAL"
  /\ Modbus_OSL_State = "MODBUS_OSL_RTU_INITIAL"
  /\ Timer2_On = FALSE /\ Timer2_Load = 0 /\ T35_On = FALSE /\ T15_On = FALSE
  /\ wire = <<>> /\ halted = FALSE
  /\ RxBuf = <<>>
  /\ fifo = <<>> /\ curReq = [Slave |-> 0, pdu |-> <<>>]
  /\ App_Msg = [msg |-> <<>>, len |-> 0]
  /\ pc = "boot" /\ rcbSlave = 0 /\ ret = 1
  /\ ev = "boot" /\ txCount = 0 /\ nrCount = 0 /\ dlvCount = 0
  /\ inflight = FALSE /\ lateFrame = FALSE
  /\ fatalCode = 0 /\ led1 = FALSE

(* ------------------- external collaborators (RTU, App) ---------------- *)

\* driverlib: the processor clock in Hz, the count of one second of timer 2.
SysCtlClockGet == 8000000

\* Modbus_OSL_RTU_Mount_ADU: slave number, PDU, CRC16 low byte then high byte.
Modbus_OSL_RTU_Mount_ADU(pdu, Slave, L_pdu) ==
  LET body == <<Slave>> \o SubSeq(pdu, 1, L_pdu)
  IN  body \o <<CRCLo(body), CRCHi(body)>>

\* Modbus_OSL_RTU_Char_Get(i): character i (from 0) of the received frame.
Modbus_OSL_RTU_Char_Get(i) == IF i < Len(RxBuf) THEN RxBuf[i + 1] ELSE 0

\* Modbus_OSL_RTU_L_Msg_Get: length of the received frame without its CRC.
Modbus_OSL_RTU_L_Msg_Get == IF Len(RxBuf) >= 2 THEN Len(RxBuf) - 2 ELSE 0

\* Modbus_OSL_RTU_Control_CRC: the frame is unmarked and its last two bytes
\* are the CRC16 of the bytes before them.
Modbus_OSL_RTU_Control_CRC ==
  /\ Modbus_OSL_Frame = "MODBUS_OSL_Frame_OK"
  /\ Len(RxBuf) >= 3
  /\ LET body == SubSeq(RxBuf, 1, Len(RxBuf) - 2)
     IN  /\ RxBuf[Len(RxBuf) - 1] = CRCLo(body)
         /\ RxBuf[Len(RxBuf)] = CRCHi(body)

\* Frames the slaves put on the line, of MaxRx characters (address, PDU, two
\* CRC bytes): from the addressed slave 1 and from another slave 2, with a
\* valid CRC, and from slave 1 with the last CRC byte corrupted.
ReplyFrames ==
  LET ones(k) == [j \in 1 .. k |-> 1]
      body(a, k) == <<a>> \o ones(k)
      good(a, k) == body(a, k) \o <<CRCLo(body(a, k)), CRCHi(body(a, k))>>
      bad(a, k) == body(a, k) \o <<CRCLo(body(a, k)), U8(CRCHi(body(a, k)) + 1)>>
  IN  {good(a, MaxRx - 3) : a \in {1, 2}} \cup {bad(1, MaxRx - 3)}

\* Characters the line can deliver after buf: those that continue a frame.
RxChars(buf) ==
  {f[Len(buf) + 1] : f \in {g \in ReplyFrames :
                              Len(g) > Len(buf) /\ SubSeq(g, 1, Len(buf)) = buf}}

(* ---------------------- timing and configuration ---------------------- *)

\* A response timeout that would be as short as the broadcast delay at the
\* rates the table does not name.
Set_Timeout_R_Short(Baudrate) ==
  CASE Baudrate = 1200 -> U32(SysCtlClockGet * 4)
    [] Baudrate = 2400 -> U32(SysCtlClockGet * 3)
    [] Baudrate = 4800 -> U32(SysCtlClockGet * 2)
    [] Baudrate = 9600 -> SysCtlClockGet
    [] OTHER           -> SysCtlClockGet \div 5

\* Counts of timer 2 for the response timeout.
Modbus_OSL_Set_Timeout_R(Baudrate) ==
  CASE Baudrate = 1200 -> U32(SysCtlClockGet * 4)
    [] Baudrate = 2400 -> U32(SysCtlClockGet * 3)
    [] Baudrate = 4800 -> U32(SysCtlClockGet * 2)
    [] Baudrate = 9600 -> SysCtlClockGet
    [] OTHER           -> SysCtlClockGet \div 2

\* Counts of timer 2 for the broadcast delay.
Modbus_OSL_Set_Timeout_B(Baudrate) ==
  CASE Baudrate = 1200 -> U32(SysCtlClockGet * 5) \div 2
    [] Baudrate = 2400 -> U32(SysCtlClockGet * 3) \div 2
    [] Baudrate = 4800 -> U32(SysCtlClockGet * 4) \div 5
    [] Baudrate = 9600 -> U32(SysCtlClockGet * 2) \div 5
    [] OTHER           -> SysCtlClockGet \div 5

\* An RTU initialisation that would leave the master where it is.
RTU_Init_MasterKept ==
  /\ Modbus_OSL_State' = "MODBUS_OSL_RTU_IDLE"
  /\ UNCHANGED Modbus_OSL_MainState

\* Modbus_OSL_RTU_Init: the reception machine and the master both go to idle.
Modbus_OSL_RTU_Init ==
  /\ Modbus_OSL_State' = "MODBUS_OSL_RTU_IDLE"
  /\ Modbus_OSL_MainState' = "MODBUS_OSL_IDLE"

\* An initialisation that would start the engine in ASCII mode as in RTU mode.
Init_AsciiStarted(Baudrate, Mode, Attempts) ==
  /\ pc = "boot"
  /\ Modbus_OSL_Processing_Flag' = 0
  /\ Modbus_OSL_Forward_Flag' = 0
  /\ Modbus_OSL_Max_Attempts' = Attempts
  /\ Modbus_OSL_Attempt' = 1
  /\ Modbus_OSL_Frame' = "MODBUS_OSL_Frame_OK"
  /\ Modbus_OSL_Baudrate' = (IF Baudrate = 0 THEN 19200 ELSE Baudrate)
  /\ Modbus_OSL_Mode' = (IF Mode \in {"MDEFAULT", "MODBUS_OSL_MODE_RTU"}
                         THEN "MODBUS_OSL_MODE_RTU" ELSE "MODBUS_OSL_MODE_ASCII")
  /\ Modbus_OSL_Timeout_B' = Modbus_OSL_Set_Timeout_B(Modbus_OSL_Baudrate')
  /\ Modbus_OSL_Timeout_R' = Modbus_OSL_Set_Timeout_R(Modbus_OSL_Baudrate')
  /\ Modbus_OSL_RTU_Init
  /\ pc' = "main"
  /\ UNCHANGED <<Modbus_OSL_Expected_Slave, Modbus_OSL_Req_ADU, Modbus_OSL_L_Req_ADU,
                 hwVars, RxBuf, appVars, rcbSlave, ret,
                 txCount, nrCount, dlvCount, inflight>>
  /\ ev' = "init"
  /\ UNCHANGED <<lateFrame, fatalCode, led1>>

\* Modbus_OSL_Init (Baudrate, Mode, Attempts), called once at start-up.
Modbus_OSL_Init(Baudrate, Mode, Attempts) ==
  /\ pc = "boot"
  /\ Modbus_OSL_Processing_Flag' = 0
  /\ Modbus_OSL_Forward_Flag' = 0
  /\ Modbus_OSL_Max_Attempts' = Attempts
  /\ Modbus_OSL_Attempt' = 1
  /\ Modbus_OSL_Frame' = "MODBUS_OSL_Frame_OK"
  /\ Modbus_OSL_Baudrate' = (IF Baudrate = 0 THEN 19200 ELSE Baudrate)
  /\ Modbus_OSL_Mode' = (IF Mode \in {"MDEFAULT", "MODBUS_OSL_MODE_RTU"}
                         THEN "MODBUS_OSL_MODE_RTU" ELSE "MODBUS_OSL_MODE_ASCII")
  /\ Modbus_OSL_Timeout_B' = Modbus_OSL_Set_Timeout_B(Modbus_OSL_Baudrate')
  /\ Modbus_OSL_Timeout_R' = Modbus_OSL_Set_Timeout_R(Modbus_OSL_Baudrate')
  /\ IF Modbus_OSL_Mode' = "MODBUS_OSL_MODE_RTU"
     THEN Modbus_OSL_RTU_Init
     ELSE /\ Modbus_OSL_MainState' = "MODBUS_OSL_INITIAL"
          /\ UNCHANGED Modbus_OSL_State
  /\ pc' = "main"
  /\ UNCHANGED <<Modbus_OSL_Expected_Slave, Modbus_OSL_Req_ADU, Modbus_OSL_L_Req_ADU,
                 hwVars, RxBuf, appVars, rcbSlave, ret,
                 txCount, nrCount, dlvCount, inflight>>
  /\ ev' = "init"
  /\ UNCHANGED <<lateFrame, fatalCode, led1>>

(* ----------------------------- output path ---------------------------- *)

\* Modbus_OSL_Send: puts the first L_adu bytes of the buffer on the line.
Modbus_OSL_Send(mb_req_adu, L_adu) ==
  wire' = SubSeq(mb_req_adu, 1, IF L_adu <= Len(mb_req_adu) THEN L_adu ELSE Len(mb_req_adu))

\* A broadcast timer that would have the engine await a reply.
BroadCast_Timeout_AwaitingReply ==
  /\ Timer2_Load' = Modbus_OSL_Timeout_B
  /\ Timer2_On' = TRUE
  /\ Modbus_OSL_MainState' = "MODBUS_OSL_WAITREPLY"

\* Modbus_OSL_BroadCast_Timeout: load and start timer 2, go to DELAY.
Modbus_OSL_BroadCast_Timeout ==
  /\ Timer2_Load' = Modbus_OSL_Timeout_B
  /\ Timer2_On' = TRUE
  /\ Modbus_OSL_MainState' = "MODBUS_OSL_DELAY"

\* Modbus_OSL_Response_Timeout: load and start timer 2, go to WAITREPLY.
\* The timer counts at least SysCtlClockGet/2 cycles, so it cannot expire
\* between its start and the store of the state that follows it.
Modbus_OSL_Response_Timeout ==
  /\ Timer2_Load' = Modbus_OSL_Timeout_R
  /\ Timer2_On' = TRUE
  /\ Modbus_OSL_MainState' = "MODBUS_OSL_WAITREPLY"

\* Modbus_OSL_Output (mb_req_pdu, Slave, L_pdu): mount, send, start the timers.
Modbus_OSL_Output(mb_req_pdu, Slave, L_pdu) ==
  /\ IF Modbus_OSL_Mode = "MODBUS_OSL_MODE_RTU"
     THEN /\ Modbus_OSL_Req_ADU' = Modbus_OSL_RTU_Mount_ADU(mb_req_pdu, Slave, L_pdu)
          /\ Modbus_OSL_L_Req_ADU' = U8(L_pdu + 3)
          /\ Modbus_OSL_State' = "MODBUS_OSL_RTU_EMISSION"
          /\ T35_On' = TRUE
     ELSE UNCHANGED <<Modbus_OSL_Req_ADU, Modbus_OSL_L_Req_ADU, Modbus_OSL_State, T35_On>>
  /\ Modbus_OSL_Expected_Slave' = Slave
  /\ Modbus_OSL_Send(Modbus_OSL_Req_ADU', Modbus_OSL_L_Req_ADU')
  /\ IF Modbus_OSL_Expected_Slave' = 0
     THEN Modbus_OSL_BroadCast_Timeout
     ELSE Modbus_OSL_Response_Timeout

\* Modbus_App_Send: sends the request the application holds as current.
Modbus_App_Send ==
  /\ Modbus_OSL_Output(curReq.pdu, curReq.Slave, Len(curReq.pdu))
  /\ txCount' = txCount + 1
  /\ UNCHANGED <<fifo, curReq, nrCount, dlvCount, inflight>>

\* Modbus_App_FIFOSend with a request queued: dequeues it, makes it current
\* and sends it (the caller sees 0; with an empty queue it sees 1).
Modbus_App_FIFOSend ==
  /\ curReq' = Head(fifo)
  /\ fifo' = Tail(fifo)
  /\ Modbus_OSL_Output(curReq'.pdu, curReq'.Slave, Len(curReq'.pdu))
  /\ txCount' = 1 /\ nrCount' = 0 /\ dlvCount' = 0 /\ inflight' = TRUE

\* Modbus_OSL_Output up to the TimerEnable of Modbus_OSL_BroadCast_Timeout or
\* Modbus_OSL_Response_Timeout: timer 2 runs, the state is not stored yet.
Output_TimerStarted(mb_req_pdu, Slave, L_pdu) ==
  /\ IF Modbus_OSL_Mode = "MODBUS_OSL_MODE_RTU"
     THEN /\ Modbus_OSL_Req_ADU' = Modbus_OSL_RTU_Mount_ADU(mb_req_pdu, Slave, L_pdu)
          /\ Modbus_OSL_L_Req_ADU' = U8(L_pdu + 3)
          /\ Modbus_OSL_State' = "MODBUS_OSL_RTU_EMISSION"
          /\ T35_On' = TRUE
     ELSE UNCHANGED <<Modbus_OSL_Req_ADU, Modbus_OSL_L_Req_ADU, Modbus_OSL_State, T35_On>>
  /\ Modbus_OSL_Expected_Slave' = Slave
  /\ Modbus_OSL_Send(Modbus_OSL_Req_ADU', Modbus_OSL_L_Req_ADU')
  /\ Timer2_Load' = (IF Modbus_OSL_Expected_Slave' = 0
                     THEN Modbus_OSL_Timeout_B ELSE Modbus_OSL_Timeout_R)
  /\ Timer2_On' = TRUE
  /\ UNCHANGED Modbus_OSL_MainState

\* The application queues a request between two polls.
App_Enqueue(req) ==
  /\ pc = "main" /\ ~halted
  /\ Len(fifo) < MaxQueue
  /\ fifo' = Append(fifo, req)
  /\ ev' = "enqueue"
  /\ UNCHANGED <<oslVars, hwVars, RxBuf, curReq, App_Msg, pollVars,
                 txCount, nrCount, dlvCount, inflight>>
  /\ UNCHANGED <<lateFrame, fatalCode, led1>>

(* ----------------------------- retry tracker -------------------------- *)

\* A resend test that would leave the flag set.
Resend_FlagKept == [res |-> Modbus_OSL_Forward_Flag, flag |-> Modbus_OSL_Forward_Flag]

\* Modbus_OSL_Resend: the value of the resend flag, and the flag cleared.
Modbus_OSL_Resend == [res |-> Modbus_OSL_Forward_Flag, flag |-> 0]

\* Modbus_App_No_Response: the application records the abandoned request.
Modbus_App_No_Response ==
  /\ nrCount' = nrCount + 1
  /\ inflight' = FALSE

\* A retry test that would allow one attempt more than the maximum.
AttemptsLeft_OneMore == Modbus_OSL_Attempt <= Modbus_OSL_Max_Attempts

\* Modbus_OSL_Repeat_Request: is another attempt allowed?
AttemptsLeft == Modbus_OSL_Attempt < Modbus_OSL_Max_Attempts

\* A retry tracker that would count the attempt without asking for the resend.
Repeat_Request_NoResend ==
  IF AttemptsLeft
  THEN /\ Modbus_OSL_Attempt' = U8(Modbus_OSL_Attempt + 1)
       /\ Modbus_OSL_Forward_Flag' = 0
       /\ UNCHANGED <<nrCount, inflight>>
  ELSE /\ Modbus_App_No_Response
       /\ Modbus_OSL_Attempt' = 1
       /\ UNCHANGED Modbus_OSL_Forward_Flag

\* A retry tracker that would ask for a resend of the request it gives up.
Repeat_Request_ResendOnGiveUp ==
  IF AttemptsLeft
  THEN /\ Modbus_OSL_Attempt' = U8(Modbus_OSL_Attempt + 1)
       /\ Modbus_OSL_Forward_Flag' = 1
       /\ UNCHANGED <<nrCount, inflight>>
  ELSE /\ Modbus_App_No_Response
       /\ Modbus_OSL_Attempt' = 1
       /\ Modbus_OSL_Forward_Flag' = 1

\* Modbus_OSL_Repeat_Request: one more attempt, or give the request up.
Modbus_OSL_Repeat_Request ==
  IF AttemptsLeft
  THEN /\ Modbus_OSL_Attempt' = U8(Modbus_OSL_Attempt + 1)
       /\ Modbus_OSL_Forward_Flag' = 1
       /\ UNCHANGED <<nrCount, inflight>>
  ELSE /\ Modbus_App_No_Response
       /\ Modbus_OSL_Attempt' = 1
       /\ UNCHANGED Modbus_OSL_Forward_Flag

\* A settle that would leave the attempt count as it is.
Attempt_NotReset == Modbus_OSL_Attempt' = Modbus_OSL_Attempt

\* Modbus_OSL__Attempt: the attempt count back to one.
Modbus_OSL__Attempt == Modbus_OSL_Attempt' = 1

(* ------------------------------ input path ---------------------------- *)

\* Modbus_OSL_Reception_Complete: the flag of a complete incoming frame.
Modbus_OSL_Reception_Complete ==
  Modbus_OSL_Processing_Flag' =
    (IF Modbus_OSL_MainState = "MODBUS_OSL_WAITREPLY" THEN 1
     ELSE Modbus_OSL_Processing_Flag)

\* A read-and-clear without the mask, a completion falling between the read
\* and the clear: the read has seen 0 and the clear wipes the flag.
Processing_Msg_Unmasked == [res |-> 0, flag |-> 0]

\* Modbus_OSL_Processing_Msg: with interrupts masked, the value of the
\* frame-complete flag, and the flag cleared.
Modbus_OSL_Processing_Msg == [res |-> Modbus_OSL_Processing_Flag, flag |-> 0]

\* A hand-over that would keep the slave number in front of the PDU.
RTU_to_App_WithAddress ==
  LET L == Modbus_OSL_RTU_L_Msg_Get
      chars == [j \in 1 .. L |-> Modbus_OSL_RTU_Char_Get(j - 1)]
  IN  [msg |-> chars, len |-> U8(L)]

\* Modbus_OSL_RTU_to_App: the PDU handed to the application, characters
\* 1 .. L_Msg-1 of the frame stored at 0 .. L_Msg-2, and its length L_Msg-1.
Modbus_OSL_RTU_to_App ==
  LET L == Modbus_OSL_RTU_L_Msg_Get
      chars == [j \in 1 .. (IF L >= 1 THEN L - 1 ELSE 0) |-> Modbus_OSL_RTU_Char_Get(j)]
  IN  [msg |-> chars, len |-> U8(L + 255)]

(* ------------------------------ poll loop ------------------------------ *)

\* The steps of the poll loop, as ev names them.
PollSteps == {"poll_resend", "poll_idle_empty", "poll_send", "poll_flag", "poll_no_frame",
              "poll_error_idle", "poll_error_wait", "poll_nothing", "poll_retry",
              "poll_accept", "poll_other_slave", "poll_deliver", "poll_crc_error",
              "poll_settle", "poll_app_error"}

\* The poll returns r to the driver loop; step names what it did.
PollReturn(r, step) ==
  /\ ret' = r
  /\ ev' = step
  /\ pc' = "main"
  /\ rcbSlave' = 0

\* Modbus_OSL_Serial_Comm, case MODBUS_OSL_IDLE.
Serial_Comm_Idle ==
  LET resend == Modbus_OSL_Resend IN
  /\ Modbus_OSL_Forward_Flag' = resend.flag
  /\ IF resend.res # 0
     THEN /\ Modbus_App_Send
          /\ PollReturn(1, "poll_resend")
     ELSE IF fifo = <<>>
     THEN /\ PollReturn(0, "poll_idle_empty")
          /\ UNCHANGED <<Modbus_OSL_Req_ADU, Modbus_OSL_L_Req_ADU, Modbus_OSL_State,
                         Modbus_OSL_Expected_Slave, Modbus_OSL_MainState,
                         Timer2_On, Timer2_Load, T35_On, wire, fifo, curReq,
                         txCount, nrCount, dlvCount, inflight>>
     ELSE /\ Modbus_App_FIFOSend
          /\ PollReturn(1, "poll_send")
  /\ UNCHANGED <<cfgVars, Modbus_OSL_Frame, Modbus_OSL_Processing_Flag,
                 Modbus_OSL_Attempt, T15_On, halted, RxBuf, App_Msg>>
  /\ UNCHANGED <<lateFrame, fatalCode, led1>>

\* Modbus_OSL_Serial_Comm, case MODBUS_OSL_IDLE with a request to put on the
\* line, up to the start of timer 2 in Modbus_OSL_Output.
Serial_Comm_Idle_TimerStarted ==
  LET resend == Modbus_OSL_Resend IN
  /\ pc = "main" /\ ~halted
  /\ Modbus_OSL_MainState = "MODBUS_OSL_IDLE"
  /\ Modbus_OSL_Forward_Flag' = resend.flag
  /\ IF resend.res # 0
     THEN /\ Output_TimerStarted(curReq.pdu, curReq.Slave, Len(curReq.pdu))
          /\ txCount' = txCount + 1
          /\ UNCHANGED <<fifo, curReq, nrCount, dlvCount, inflight>>
          /\ ev' = "poll_resend"
     ELSE /\ fifo # <<>>
          /\ curReq' = Head(fifo)
          /\ fifo' = Tail(fifo)
          /\ Output_TimerStarted(curReq'.pdu, curReq'.Slave, Len(curReq'.pdu))
          /\ txCount' = 1 /\ nrCount' = 0 /\ dlvCount' = 0 /\ inflight' = TRUE
          /\ ev' = "poll_send"
  /\ pc' = "out_armed"
  /\ UNCHANGED <<rcbSlave, ret>>
  /\ UNCHANGED <<cfgVars, Modbus_OSL_Frame, Modbus_OSL_Processing_Flag,
                 Modbus_OSL_Attempt, T15_On, halted, RxBuf, App_Msg>>
  /\ UNCHANGED <<lateFrame, fatalCode, led1>>

\* The last statement of Modbus_OSL_BroadCast_Timeout or
\* Modbus_OSL_Response_Timeout: the state is stored and the poll returns.
Output_StateStore ==
  /\ pc = "out_armed" /\ ~halted
  /\ Modbus_OSL_MainState' = (IF Modbus_OSL_Expected_Slave = 0
                              THEN "MODBUS_OSL_DELAY" ELSE "MODBUS_OSL_WAITREPLY")
  /\ PollReturn(1, "poll_state_stored")
  /\ UNCHANGED <<cfgVars, Modbus_OSL_Frame, Modbus_OSL_Processing_Flag,
                 Modbus_OSL_Forward_Flag, Modbus_OSL_Attempt, Modbus_OSL_Expected_Slave,
                 Modbus_OSL_Req_ADU, Modbus_OSL_L_Req_ADU, Modbus_OSL_State,
                 hwVars, RxBuf, appVars, txCount, nrCount, dlvCount, inflight>>
  /\ UNCHANGED <<lateFrame, fatalCode, led1>>

\* Modbus_OSL_Serial_Comm, case MODBUS_OSL_WAITREPLY, up to the read of the
\* frame-complete flag in Modbus_OSL_Receive_CallBack.
Serial_Comm_WaitReply ==
  LET msg == Modbus_OSL_Processing_Msg IN
  /\ Modbus_OSL_Processing_Flag' = msg.flag
  /\ IF msg.res # 0
     THEN /\ pc' = "rcb_slave"
          /\ ev' = "poll_flag"
          /\ UNCHANGED <<rcbSlave, ret>>
     ELSE PollReturn(1, "poll_no_frame")
  /\ UNCHANGED <<cfgVars, Modbus_OSL_Frame, Modbus_OSL_Forward_Flag, Modbus_OSL_Attempt,
                 Modbus_OSL_Expected_Slave, Modbus_OSL_Req_ADU, Modbus_OSL_L_Req_ADU,
                 Modbus_OSL_MainState, Modbus_OSL_State, hwVars, RxBuf, appVars, txCount, nrCount, dlvCount, inflight>>
  /\ UNCHANGED <<lateFrame, fatalCode, led1>>

\* An ERROR case that would not wait for the reception machine.
Serial_Comm_Error_NoWait ==
  /\ pc' = "err_retry"
  /\ ev' = "poll_error_idle"
  /\ UNCHANGED <<rcbSlave, ret>>
  /\ UNCHANGED <<oslVars, hwVars, RxBuf, appVars, txCount, nrCount, dlvCount, inflight>>
  /\ UNCHANGED <<lateFrame, fatalCode, led1>>

\* Modbus_OSL_Serial_Comm, case MODBUS_OSL_ERROR, the test of the reception
\* machine's state.
Serial_Comm_Error ==
  /\ IF Modbus_OSL_State \in {"MODBUS_OSL_RTU_IDLE", "MODBUS_OSL_ASCII_IDLE"}
     THEN /\ pc' = "err_retry"
          /\ ev' = "poll_error_idle"
          /\ UNCHANGED <<rcbSlave, ret>>
     ELSE PollReturn(1, "poll_error_wait")
  /\ UNCHANGED <<oslVars, hwVars, RxBuf, appVars, txCount, nrCount, dlvCount, inflight>>
  /\ UNCHANGED <<lateFrame, fatalCode, led1>>

\* A default case that would report quiescence.
Serial_Comm_Default_Quiet ==
  /\ PollReturn(0, "poll_nothing")
  /\ UNCHANGED <<oslVars, hwVars, RxBuf, appVars, txCount, nrCount, dlvCount, inflight>>
  /\ UNCHANGED <<lateFrame, fatalCode, led1>>

\* Modbus_OSL_Serial_Comm, any other state: nothing to do.
Serial_Comm_Default ==
  /\ PollReturn(1, "poll_nothing")
  /\ UNCHANGED <<oslVars, hwVars, RxBuf, appVars, txCount, nrCount, dlvCount, inflight>>
  /\ UNCHANGED <<lateFrame, fatalCode, led1>>

\* Modbus_OSL_Serial_Comm, entered from the driver loop.
Modbus_OSL_Serial_Comm ==
  /\ pc = "main" /\ ~halted
  /\ CASE Modbus_OSL_MainState = "MODBUS_OSL_IDLE" -> Serial_Comm_Idle
       [] Modbus_OSL_MainState = "MODBUS_OSL_WAITREPLY" -> Serial_Comm_WaitReply
       [] Modbus_OSL_MainState = "MODBUS_OSL_ERROR" -> Serial_Comm_Error
       [] OTHER -> Serial_Comm_Default

\* Modbus_OSL_Serial_Comm in MODBUS_OSL_ERROR with the reception machine
\* found idle: the retry tracker, then MODBUS_OSL_IDLE.
Serial_Comm_Error_Retry ==
  /\ pc = "err_retry" /\ ~halted
  /\ Modbus_OSL_Repeat_Request
  /\ Modbus_OSL_MainState' = "MODBUS_OSL_IDLE"
  /\ PollReturn(1, "poll_retry")
  /\ UNCHANGED <<cfgVars, Modbus_OSL_Frame, Modbus_OSL_Processing_Flag,
                 Modbus_OSL_Expected_Slave, Modbus_OSL_Req_ADU, Modbus_OSL_L_Req_ADU,
                 Modbus_OSL_State, hwVars, RxBuf, appVars, txCount, dlvCount>>
  /\ UNCHANGED <<lateFrame, fatalCode, led1>>

\* A callback that would take the frame of any slave.
FromAnySlave(Modbus_OSL_Slave) == Modbus_OSL_Slave \in 0 .. 255

\* Modbus_OSL_Receive_CallBack: is the answer from the expected slave?
FromExpectedSlave(Modbus_OSL_Slave) == Modbus_OSL_Slave = Modbus_OSL_Expected_Slave

\* A callback that would stop timer 2 for the frame of another slave too.
Receive_CallBack_Slave_AlwaysStops ==
  /\ pc = "rcb_slave" /\ ~halted
  /\ LET Modbus_OSL_Slave == Modbus_OSL_RTU_Char_Get(0) IN
     IF FromExpectedSlave(Modbus_OSL_Slave)
     THEN /\ Timer2_On' = FALSE
          /\ rcbSlave' = Modbus_OSL_Slave
          /\ pc' = "rcb_proc"
          /\ ev' = "poll_accept"
          /\ UNCHANGED ret
     ELSE /\ PollReturn(1, "poll_other_slave")
          /\ Timer2_On' = FALSE
  /\ UNCHANGED <<oslVars, Timer2_Load, T35_On, T15_On, wire, halted, RxBuf, appVars, txCount, nrCount, dlvCount, inflight>>
  /\ UNCHANGED <<lateFrame, fatalCode, led1>>

\* A callback that would accept the frame and leave timer 2 running.
Receive_CallBack_Slave_TimerRunning ==
  /\ pc = "rcb_slave" /\ ~halted
  /\ LET Modbus_OSL_Slave == Modbus_OSL_RTU_Char_Get(0) IN
     IF FromExpectedSlave(Modbus_OSL_Slave)
     THEN /\ UNCHANGED Timer2_On
          /\ rcbSlave' = Modbus_OSL_Slave
          /\ pc' = "rcb_proc"
          /\ ev' = "poll_accept"
          /\ UNCHANGED ret
     ELSE /\ PollReturn(1, "poll_other_slave")
          /\ UNCHANGED Timer2_On
  /\ UNCHANGED <<oslVars, Timer2_Load, T35_On, T15_On, wire, halted, RxBuf, appVars, txCount, nrCount, dlvCount, inflight>>
  /\ UNCHANGED <<lateFrame, fatalCode, led1>>

\* Modbus_OSL_Receive_CallBack after the flag was read set: the slave number
\* of the frame against the expected one, and timer 2 stopped on a match.
Receive_CallBack_Slave ==
  /\ pc = "rcb_slave" /\ ~halted
  /\ LET Modbus_OSL_Slave == Modbus_OSL_RTU_Char_Get(0) IN
     IF FromExpectedSlave(Modbus_OSL_Slave)
     THEN /\ Timer2_On' = FALSE
          /\ rcbSlave' = Modbus_OSL_Slave
          /\ pc' = "rcb_proc"
          /\ ev' = "poll_accept"
          /\ UNCHANGED ret
     ELSE /\ PollReturn(1, "poll_other_slave")
          /\ UNCHANGED Timer2_On
  /\ UNCHANGED <<oslVars, Timer2_Load, T35_On, T15_On, wire, halted, RxBuf, appVars, txCount, nrCount, dlvCount, inflight>>
  /\ UNCHANGED <<lateFrame, fatalCode, led1>>

\* A callback that would leave the frame validity as the bad frame left it.
Receive_CallBack_Process_FrameKept ==
  /\ pc = "rcb_proc" /\ ~halted
  /\ IF Modbus_OSL_RTU_Control_CRC
     THEN /\ Modbus_OSL_MainState' = "MODBUS_OSL_PROCESSING"
          /\ App_Msg' = Modbus_OSL_RTU_to_App
          /\ dlvCount' = dlvCount + 1
          /\ pc' = "app_cb"
          /\ ev' = "poll_deliver"
          /\ UNCHANGED <<Modbus_OSL_Frame, rcbSlave, ret>>
     ELSE /\ UNCHANGED Modbus_OSL_Frame
          /\ Modbus_OSL_MainState' = "MODBUS_OSL_ERROR"
          /\ PollReturn(1, "poll_crc_error")
          /\ UNCHANGED <<App_Msg, dlvCount>>
  /\ UNCHANGED <<cfgVars, Modbus_OSL_Processing_Flag, Modbus_OSL_Forward_Flag,
                 Modbus_OSL_Attempt, Modbus_OSL_Expected_Slave, Modbus_OSL_Req_ADU,
                 Modbus_OSL_L_Req_ADU, Modbus_OSL_State, hwVars, RxBuf, fifo, curReq, txCount, nrCount, inflight>>
  /\ UNCHANGED <<lateFrame, fatalCode, led1>>

\* A callback that would leave the ERROR of a late timer expiry in place.
Receive_CallBack_Process_ErrorKept ==
  /\ pc = "rcb_proc" /\ ~halted
  /\ IF Modbus_OSL_RTU_Control_CRC
     THEN /\ Modbus_OSL_MainState' = (IF Modbus_OSL_MainState = "MODBUS_OSL_ERROR"
                                      THEN "MODBUS_OSL_ERROR" ELSE "MODBUS_OSL_PROCESSING")
          /\ App_Msg' = Modbus_OSL_RTU_to_App
          /\ dlvCount' = dlvCount + 1
          /\ pc' = "app_cb"
          /\ ev' = "poll_deliver"
          /\ UNCHANGED <<Modbus_OSL_Frame, rcbSlave, ret>>
     ELSE /\ Modbus_OSL_Frame' = "MODBUS_OSL_Frame_OK"
          /\ Modbus_OSL_MainState' = "MODBUS_OSL_ERROR"
          /\ PollReturn(1, "poll_crc_error")
          /\ UNCHANGED <<App_Msg, dlvCount>>
  /\ UNCHANGED <<cfgVars, Modbus_OSL_Processing_Flag, Modbus_OSL_Forward_Flag,
                 Modbus_OSL_Attempt, Modbus_OSL_Expected_Slave, Modbus_OSL_Req_ADU,
                 Modbus_OSL_L_Req_ADU, Modbus_OSL_State, hwVars, RxBuf, fifo, curReq, txCount, nrCount, inflight>>
  /\ UNCHANGED <<lateFrame, fatalCode, led1>>

\* Modbus_OSL_Receive_CallBack, the accepted frame: PROCESSING, then the CRC;
\* a good frame goes to the application, a bad one leaves ERROR behind.
Receive_CallBack_Process ==
  /\ pc = "rcb_proc" /\ ~halted
  /\ IF Modbus_OSL_RTU_Control_CRC
     THEN /\ Modbus_OSL_MainState' = "MODBUS_OSL_PROCESSING"
          /\ App_Msg' = Modbus_OSL_RTU_to_App
          /\ dlvCount' = dlvCount + 1
          /\ pc' = "app_cb"
          /\ ev' = "poll_deliver"
          /\ UNCHANGED <<Modbus_OSL_Frame, rcbSlave, ret>>
     ELSE /\ Modbus_OSL_Frame' = "MODBUS_OSL_Frame_OK"
          /\ Modbus_OSL_MainState' = "MODBUS_OSL_ERROR"
          /\ PollReturn(1, "poll_crc_error")
          /\ UNCHANGED <<App_Msg, dlvCount>>
  /\ UNCHANGED <<cfgVars, Modbus_OSL_Processing_Flag, Modbus_OSL_Forward_Flag,
                 Modbus_OSL_Attempt, Modbus_OSL_Expected_Slave, Modbus_OSL_Req_ADU,
                 Modbus_OSL_L_Req_ADU, Modbus_OSL_State, hwVars, RxBuf, fifo, curReq, txCount, nrCount, inflight>>
  /\ UNCHANGED <<lateFrame, fatalCode, led1>>

\* Modbus_App_Manage_CallBack: the application reads the PDU and either
\* settles the request (attempt count reset, MODBUS_OSL_IDLE) or finds it in
\* error and leaves MODBUS_OSL_ERROR for the retry tracker.
Modbus_App_Manage_CallBack(settle) ==
  /\ pc = "app_cb" /\ ~halted
  /\ IF settle
     THEN /\ Modbus_OSL__Attempt
          /\ Modbus_OSL_MainState' = "MODBUS_OSL_IDLE"
          /\ inflight' = FALSE
     ELSE /\ Modbus_OSL_MainState' = "MODBUS_OSL_ERROR"
          /\ UNCHANGED <<Modbus_OSL_Attempt, inflight>>
  /\ PollReturn(1, IF settle THEN "poll_settle" ELSE "poll_app_error")
  /\ UNCHANGED <<cfgVars, Modbus_OSL_Frame, Modbus_OSL_Processing_Flag,
                 Modbus_OSL_Forward_Flag, Modbus_OSL_Expected_Slave, Modbus_OSL_Req_ADU,
                 Modbus_OSL_L_Req_ADU, Modbus_OSL_State, hwVars, RxBuf, appVars, txCount, nrCount, dlvCount>>
  /\ UNCHANGED <<lateFrame, fatalCode, led1>>

(* --------------------------- interrupt handlers ------------------------ *)

\* Interrupts are enabled by Modbus_OSL_Init and are served until the
\* processor stays in Modbus_Fatal_Error.
IntEnabled == pc # "boot" /\ ~halted

\* Modbus_OSL_Timeouts: the state the timer-2 expiry leaves, or "FATAL" for
\* the call of Modbus_Fatal_Error(110).
Modbus_OSL_Timeouts ==
  CASE Modbus_OSL_MainState = "MODBUS_OSL_WAITREPLY" -> "MODBUS_OSL_ERROR"
    [] Modbus_OSL_MainState = "MODBUS_OSL_DELAY" -> "MODBUS_OSL_IDLE"
    [] OTHER -> "FATAL"

\* A fatal guard that would return to its caller.
Fatal_Error_Returns(Error) ==
  /\ halted' = FALSE
  /\ fatalCode' = Error

\* Modbus_Fatal_Error (Error): the processor never leaves the empty loop;
\* Error stays in the argument of the call and is written nowhere.
Modbus_Fatal_Error(Error) ==
  /\ halted' = TRUE
  /\ fatalCode' = Error

\* The processor cycles that can pass between the TimerEnable and the store
\* of the state in Modbus_OSL_BroadCast_Timeout and Modbus_OSL_Response_Timeout,
\* the interrupt handlers served in between included: a millisecond.
WindowCycles == SysCtlClockGet \div 1000

\* A timer-2 handler that would ask for the resend itself.
Timer2Served_AsksResend ==
  /\ Timer2_On' = FALSE
  /\ ev' = "timer2"
  /\ LET next == Modbus_OSL_Timeouts IN
     IF next = "FATAL"
     THEN /\ Modbus_Fatal_Error(110)
          /\ UNCHANGED <<Modbus_OSL_MainState, inflight, Modbus_OSL_Forward_Flag>>
     ELSE /\ Modbus_OSL_MainState' = next
          /\ Modbus_OSL_Forward_Flag' = (IF next = "MODBUS_OSL_ERROR" THEN 1 ELSE Modbus_OSL_Forward_Flag)
          /\ inflight' = (inflight /\ next # "MODBUS_OSL_IDLE")
          /\ UNCHANGED <<halted, fatalCode>>
  /\ UNCHANGED <<cfgVars, Modbus_OSL_Frame, Modbus_OSL_Processing_Flag,
                 Modbus_OSL_Attempt, Modbus_OSL_Expected_Slave,
                 Modbus_OSL_Req_ADU, Modbus_OSL_L_Req_ADU, Modbus_OSL_State,
                 Timer2_Load, T35_On, T15_On, wire, RxBuf, appVars, pollVars,
                 txCount, nrCount, dlvCount>>
  /\ UNCHANGED <<lateFrame, led1>>

\* The timer-2 interrupt is served: the timer is one shot and stops, and
\* Modbus_OSL_Timeouts is called.
Timer2Served ==
  /\ Timer2_On' = FALSE
  /\ ev' = "timer2"
  /\ LET next == Modbus_OSL_Timeouts IN
     IF next = "FATAL"
     THEN /\ Modbus_Fatal_Error(110)
          /\ UNCHANGED <<Modbus_OSL_MainState, inflight>>
     ELSE /\ Modbus_OSL_MainState' = next
          /\ inflight' = (inflight /\ next # "MODBUS_OSL_IDLE")
          /\ UNCHANGED <<halted, fatalCode>>
  /\ UNCHANGED <<cfgVars, Modbus_OSL_Frame, Modbus_OSL_Processing_Flag,
                 Modbus_OSL_Forward_Flag, Modbus_OSL_Attempt, Modbus_OSL_Expected_Slave,
                 Modbus_OSL_Req_ADU, Modbus_OSL_L_Req_ADU, Modbus_OSL_State,
                 Timer2_Load, T35_On, T15_On, wire, RxBuf, appVars, pollVars,
                 txCount, nrCount, dlvCount>>
  /\ UNCHANGED <<lateFrame, led1>>

\* Timer 2 (one shot) expires and its interrupt calls Modbus_OSL_Timeouts.
\* Before the state that follows its start is stored it can expire only if
\* the count it was loaded with is over by then.
Timer2IntHandler ==
  /\ IntEnabled /\ Timer2_On
  /\ pc = "out_armed" => Timer2_Load <= WindowCycles
  /\ Timer2Served

\* Modbus_OSL_RTU_UART(c): the reception machine takes a character.
Modbus_OSL_RTU_UART(c) ==
  CASE Modbus_OSL_State = "MODBUS_OSL_RTU_IDLE" ->
         /\ RxBuf' = <<c>>
         /\ Modbus_OSL_State' = "MODBUS_OSL_RTU_RECEPTION"
         /\ T15_On' = TRUE /\ T35_On' = TRUE
         /\ UNCHANGED Modbus_OSL_Frame
    [] Modbus_OSL_State = "MODBUS_OSL_RTU_RECEPTION" ->
         /\ RxBuf' = Append(RxBuf, c)
         /\ T15_On' = TRUE /\ T35_On' = TRUE
         /\ UNCHANGED <<Modbus_OSL_State, Modbus_OSL_Frame>>
    [] Modbus_OSL_State = "MODBUS_OSL_RTU_CONTROLANDWAITING" ->
         /\ Modbus_OSL_Frame' = "MODBUS_OSL_Frame_NOK"
         /\ UNCHANGED <<RxBuf, Modbus_OSL_State, T15_On, T35_On>>
    [] OTHER ->
         UNCHANGED <<RxBuf, Modbus_OSL_State, Modbus_OSL_Frame, T15_On, T35_On>>

\* A handler that would take the character in PROCESSING too.
UartCharAccepted_Processing ==
  \/ Modbus_OSL_MainState = "MODBUS_OSL_WAITREPLY"
  \/ Modbus_OSL_MainState = "MODBUS_OSL_ERROR"
  \/ Modbus_OSL_MainState = "MODBUS_OSL_PROCESSING"

\* UART1IntHandler: a character is taken in WAITREPLY and in ERROR only.
UartCharAccepted ==
  \/ Modbus_OSL_MainState = "MODBUS_OSL_WAITREPLY"
  \/ Modbus_OSL_MainState = "MODBUS_OSL_ERROR"

\* UART1IntHandler with interrupt status ulStatus and character c received.
UART1IntHandler(ulStatus, c) ==
  /\ IntEnabled
  /\ ev' = "uart"
  /\ IF UartCharAccepted
     THEN IF ulStatus = "UART_INT_PE"
          THEN /\ Modbus_OSL_Frame' = "MODBUS_OSL_Frame_NOK"
               /\ UNCHANGED <<RxBuf, Modbus_OSL_State, T15_On, T35_On, halted, fatalCode>>
          ELSE IF Modbus_OSL_Mode = "MODBUS_OSL_MODE_RTU"
          THEN /\ Modbus_OSL_RTU_UART(c)
               /\ UNCHANGED <<halted, fatalCode>>
          ELSE IF Modbus_OSL_Mode = "MODBUS_OSL_MODE_ASCII"
          THEN UNCHANGED <<RxBuf, Modbus_OSL_State, Modbus_OSL_Frame, T15_On, T35_On,
                           halted, fatalCode>>
          ELSE /\ Modbus_Fatal_Error(100)
               /\ UNCHANGED <<RxBuf, Modbus_OSL_State, Modbus_OSL_Frame, T15_On, T35_On>>
     ELSE UNCHANGED <<RxBuf, Modbus_OSL_State, Modbus_OSL_Frame, T15_On, T35_On,
                      halted, fatalCode>>
  /\ led1' = halted'
  /\ UNCHANGED <<cfgVars, Modbus_OSL_Processing_Flag, Modbus_OSL_Forward_Flag,
                 Modbus_OSL_Attempt, Modbus_OSL_Expected_Slave, Modbus_OSL_Req_ADU,
                 Modbus_OSL_L_Req_ADU, Modbus_OSL_MainState, Timer2_On, Timer2_Load,
                 wire, appVars, pollVars, txCount, nrCount, dlvCount, inflight>>
  /\ lateFrame' = (lateFrame /\ ~(/\ Modbus_OSL_State = "MODBUS_OSL_RTU_IDLE"
                                  /\ Modbus_OSL_State' = "MODBUS_OSL_RTU_RECEPTION"))

\* Modbus_OSL_RTU_15T: 1.5 character times without a character.
Modbus_OSL_RTU_15T ==
  /\ IntEnabled /\ T15_On
  /\ T15_On' = FALSE
  /\ ev' = "t15"
  /\ Modbus_OSL_State' =
       (IF Modbus_OSL_State = "MODBUS_OSL_RTU_RECEPTION"
        THEN "MODBUS_OSL_RTU_CONTROLANDWAITING" ELSE Modbus_OSL_State)
  /\ UNCHANGED <<cfgVars, Modbus_OSL_Frame, Modbus_OSL_Processing_Flag,
                 Modbus_OSL_Forward_Flag, Modbus_OSL_Attempt, Modbus_OSL_Expected_Slave,
                 Modbus_OSL_Req_ADU, Modbus_OSL_L_Req_ADU, Modbus_OSL_MainState,
                 Timer2_On, Timer2_Load, T35_On, wire, halted, RxBuf, appVars,
                 pollVars, txCount, nrCount, dlvCount, inflight>>
  /\ UNCHANGED <<lateFrame, fatalCode, led1>>

\* Modbus_OSL_RTU_35T: 3.5 character times without a character end the frame
\* (or the emission); a received frame is reported complete.
Modbus_OSL_RTU_35T ==
  /\ IntEnabled /\ T35_On /\ ~T15_On
  /\ T35_On' = FALSE
  /\ ev' = "t35"
  /\ IF Modbus_OSL_State = "MODBUS_OSL_RTU_CONTROLANDWAITING"
     THEN /\ Modbus_OSL_State' = "MODBUS_OSL_RTU_IDLE"
          /\ Modbus_OSL_Reception_Complete
     ELSE /\ Modbus_OSL_State' =
               (IF Modbus_OSL_State = "MODBUS_OSL_RTU_EMISSION"
                THEN "MODBUS_OSL_RTU_IDLE" ELSE Modbus_OSL_State)
          /\ UNCHANGED Modbus_OSL_Processing_Flag
  /\ UNCHANGED <<cfgVars, Modbus_OSL_Frame, Modbus_OSL_Forward_Flag, Modbus_OSL_Attempt,
                 Modbus_OSL_Expected_Slave, Modbus_OSL_Req_ADU, Modbus_OSL_L_Req_ADU,
                 Modbus_OSL_MainState, Timer2_On, Timer2_Load, T15_On, wire, halted,
                 RxBuf, appVars, pollVars, txCount, nrCount, dlvCount, inflight>>
  /\ lateFrame' = (IF Modbus_OSL_State = "MODBUS_OSL_RTU_CONTROLANDWAITING"
                   THEN Modbus_OSL_MainState # "MODBUS_OSL_WAITREPLY" ELSE lateFrame)
  /\ UNCHANGED <<fatalCode, led1>>

(* ----------------------------- specification --------------------------- *)

Configure ==
  \E Baudrate \in LineBauds, Mode \in ModeValues, Attempts \in 0 .. MaxAttemptsArg :
    Modbus_OSL_Init(Baudrate, Mode, Attempts)

Enqueue == \E req \in Requests : App_Enqueue(req)

AppCallBack == \E settle \in BOOLEAN : Modbus_App_Manage_CallBack(settle)

\* The line delivers a character: the next one of the frame being received,
\* or the first one of a frame.
UartInterrupt ==
  \E ulStatus \in UartStatus :
    \E c \in RxChars(IF Modbus_OSL_State = "MODBUS_OSL_RTU_RECEPTION" THEN RxBuf ELSE <<>>) :
      UART1IntHandler(ulStatus, c)

Next ==
  \/ Configure
  \/ Enqueue
  \/ Modbus_OSL_Serial_Comm
  \/ Serial_Comm_Error_Retry
  \/ Receive_CallBack_Slave
  \/ Receive_CallBack_Process
  \/ AppCallBack
  \/ Timer2IntHandler
  \/ UartInterrupt
  \/ Modbus_OSL_RTU_15T
  \/ Modbus_OSL_RTU_35T

Spec == Init /\ [][Next]_vars

\* The poll of MODBUS_OSL_IDLE that reaches the line or finds nothing to send,
\* in one step.
Serial_Comm_NoWindow == Modbus_OSL_Serial_Comm /\ ev' \notin {"poll_send", "poll_resend"}

\* The same program with the interrupts served between the start of timer 2
\* and the store of the state in Modbus_OSL_Output.
NextWindow ==
  \/ Configure
  \/ Enqueue
  \/ Serial_Comm_NoWindow
  \/ Serial_Comm_Idle_TimerStarted
  \/ Output_StateStore
  \/ Serial_Comm_Error_Retry
  \/ Receive_CallBack_Slave
  \/ Receive_CallBack_Process
  \/ AppCallBack
  \/ Timer2IntHandler
  \/ UartInterrupt
  \/ Modbus_OSL_RTU_15T
  \/ Modbus_OSL_RTU_35T

SpecWindow == Init /\ [][NextWindow]_vars

\* unsigned char Attempts: every value the argument can take.
AttemptValues == 0 .. 255

\* Modbus_OSL_Init with every rate, mode and number of attempts.
ConfigureAny ==
  \E Baudrate \in BaudValues, Mode \in ModeValues, Attempts \in AttemptValues :
    Modbus_OSL_Init(Baudrate, Mode, Attempts)

\* The start-up of the program, over all the arguments of Modbus_OSL_Init.
SpecConfig == Init /\ [][ConfigureAny]_vars

\* unsigned char Modbus_OSL_Req_ADU[256]: the size of the largest ADU.
ADU_Size == 256

\* The lengths of the PDUs whose ADU fits the buffer.
PduLengths == 0 .. ADU_Size - 3

\* The application queues its first request, to slave 1 with a PDU of any
\* length that fits.
EnqueueLong ==
  \E L_pdu \in PduLengths :
    /\ ~inflight
    /\ App_Enqueue([Slave |-> 1, pdu |-> [j \in 1 .. L_pdu |-> 3]])

\* The output path: start-up, a request of any length queued, and the polls
\* that put it on the line and await its reply.
NextOutput ==
  \/ Configure
  \/ EnqueueLong
  \/ Modbus_OSL_Serial_Comm

SpecOutput == Init /\ [][NextOutput]_vars

\* A hardware defect raises the timer-2 interrupt with the timer stopped.
Timer2Fault ==
  /\ IntEnabled /\ ~Timer2_On
  /\ Timer2Served

\* A defect or an abrupt restart leaves the serial mode undetermined while
\* the character handler takes characters.
ModeFault ==
  /\ IntEnabled /\ UartCharAccepted /\ Modbus_OSL_Mode # "MDEFAULT"
  /\ Modbus_OSL_Mode' = "MDEFAULT"
  /\ ev' = "fault"
  /\ UNCHANGED <<Modbus_OSL_Baudrate, Modbus_OSL_Timeout_R, Modbus_OSL_Timeout_B,
                 Modbus_OSL_Frame, Modbus_OSL_Processing_Flag,
                 Modbus_OSL_Forward_Flag, Modbus_OSL_Attempt, Modbus_OSL_Max_Attempts,
                 Modbus_OSL_Expected_Slave, Modbus_OSL_Req_ADU, Modbus_OSL_L_Req_ADU,
                 Modbus_OSL_MainState, Modbus_OSL_State>>
  /\ UNCHANGED <<hwVars, RxBuf, appVars, pollVars, txCount, nrCount, dlvCount, inflight>>
  /\ UNCHANGED <<lateFrame, fatalCode, led1>>

\* The program on hardware with the defects Modbus_Fatal_Error is there for.
NextFault ==
  \/ Next
  \/ Timer2Fault
  \/ ModeFault

SpecFault == Init /\ [][NextFault]_vars

(* ------------------------------- claims -------------------------------- *)

Configured == pc # "boot"

\* Everything but the observations ev and ret.
progVars == <<oslVars, hwVars, RxBuf, appVars, pc, rcbSlave,
              txCount, nrCount, dlvCount, inflight, lateFrame>>

\* The step is a poll that put a request on the line (a fresh one or a resend).
Transmits == ev' \in {"poll_send", "poll_resend"}

\* C1: a broadcast request (address 0) never brings the engine to WAITREPLY.
\* DELAY is entered only from IDLE by the sending poll, which sets the
\* expected slave to 0 and starts timer 2 with the broadcast count; a poll in
\* DELAY changes nothing and returns 1; DELAY is left only by the expiry of
\* timer 2, to IDLE; and in DELAY no frame is looked at or delivered.
C1_BroadcastDelayIdle ==
  [][ /\ (Modbus_OSL_MainState' = "MODBUS_OSL_WAITREPLY" => Modbus_OSL_Expected_Slave' # 0)
      /\ (Transmits /\ Modbus_OSL_Expected_Slave' = 0
            => /\ Modbus_OSL_MainState = "MODBUS_OSL_IDLE"
               /\ Modbus_OSL_MainState' = "MODBUS_OSL_DELAY"
               /\ Timer2_On' /\ Timer2_Load' = Modbus_OSL_Timeout_B)
      /\ (Modbus_OSL_MainState # "MODBUS_OSL_DELAY" /\ Modbus_OSL_MainState' = "MODBUS_OSL_DELAY"
            => /\ Modbus_OSL_MainState = "MODBUS_OSL_IDLE"
               /\ Transmits /\ Modbus_OSL_Expected_Slave' = 0)
      /\ (Modbus_OSL_MainState = "MODBUS_OSL_DELAY"
            => /\ pc = "main" /\ Modbus_OSL_Expected_Slave = 0
               /\ (ev' \in PollSteps => ret' = 1 /\ UNCHANGED progVars)
               /\ (Modbus_OSL_MainState' # "MODBUS_OSL_DELAY"
                     => ev' = "timer2" /\ Modbus_OSL_MainState' = "MODBUS_OSL_IDLE")
               /\ UNCHANGED <<Modbus_OSL_Processing_Flag, dlvCount, App_Msg>>)
    ]_vars

\* C1 witness: a broadcast was sent once and the expiry of timer 2 has brought
\* the engine back to IDLE.
C1_Witness ==
  /\ ev = "timer2" /\ Modbus_OSL_MainState = "MODBUS_OSL_IDLE"
  /\ Modbus_OSL_Expected_Slave = 0 /\ txCount = 1 /\ curReq.Slave = 0

\* C2: with a unicast request outstanding, the engine leaves WAITREPLY only by
\* (1) the poll finding a completed frame from the expected slave with a good
\* CRC (to PROCESSING), (2) the poll finding such a frame with a bad CRC (to
\* ERROR), or (3) the expiry of the response timer (to ERROR) - exactly one of
\* the three; no other poll, character or frame completion leaves WAITREPLY.
C2_FrameGood ==
  /\ pc = "rcb_proc" /\ rcbSlave = Modbus_OSL_Expected_Slave
  /\ Modbus_OSL_RTU_Control_CRC
  /\ Modbus_OSL_MainState' = "MODBUS_OSL_PROCESSING"

C2_FrameBad ==
  /\ pc = "rcb_proc" /\ rcbSlave = Modbus_OSL_Expected_Slave
  /\ ~Modbus_OSL_RTU_Control_CRC
  /\ Modbus_OSL_MainState' = "MODBUS_OSL_ERROR"

C2_TimerExpired ==
  /\ ev' = "timer2" /\ Timer2_On
  /\ Modbus_OSL_MainState' = "MODBUS_OSL_ERROR"

C2_LeavesWaitReplyByReplyOrTimeout ==
  [][ Modbus_OSL_MainState = "MODBUS_OSL_WAITREPLY"
        => /\ Modbus_OSL_Expected_Slave # 0
           /\ (Modbus_OSL_MainState' # "MODBUS_OSL_WAITREPLY"
                 => /\ C2_FrameGood \/ C2_FrameBad \/ C2_TimerExpired
                    /\ ~(C2_FrameGood /\ C2_FrameBad)
                    /\ ~(C2_FrameGood /\ C2_TimerExpired)
                    /\ ~(C2_FrameBad /\ C2_TimerExpired))
    ]_vars

\* C2 witness: a frame from the expected slave with a bad CRC has taken the
\* engine out of WAITREPLY.
C2_Witness ==
  /\ ev = "poll_crc_error" /\ Modbus_OSL_MainState = "MODBUS_OSL_ERROR"
  /\ Modbus_OSL_Expected_Slave = 1 /\ Timer2_Load = Modbus_OSL_Timeout_R

\* C3: once configured, 1 <= Modbus_OSL_Attempt <= Modbus_OSL_Max_Attempts,
\* whatever number of attempts was passed to Modbus_OSL_Init.
C3_AttemptInRange ==
  Configured => /\ 1 <= Modbus_OSL_Attempt
                /\ Modbus_OSL_Attempt <= Modbus_OSL_Max_Attempts

\* C3 witness: configured with Attempts = 0, the engine has put a request on
\* the line with the attempt count above the maximum.
C3_Witness ==
  /\ Configured /\ Modbus_OSL_Max_Attempts = 0 /\ Modbus_OSL_Attempt = 1
  /\ txCount = 1 /\ Modbus_OSL_MainState = "MODBUS_OSL_WAITREPLY"

\* The step is a poll that took a new request from the outbound queue.
Dequeues == ev' = "poll_send"

\* C4: with Modbus_OSL_Max_Attempts = N >= 1, a unicast request is put on the
\* line at most N times; Modbus_App_No_Response is called only after the
\* N-th transmission has failed and at most once per request; that call
\* leaves Modbus_OSL_Attempt = 1, the resend flag clear and the engine in
\* IDLE; and after it the next transmission is a dequeue of the next queued
\* request, never a retransmission of the abandoned one.
C4_ExhaustionAfterNAttempts ==
  [][ Modbus_OSL_Max_Attempts >= 1
        => /\ txCount' <= Modbus_OSL_Max_Attempts
           /\ nrCount' <= 1
           /\ (nrCount' = nrCount + 1
                 => /\ txCount = Modbus_OSL_Max_Attempts /\ txCount' = txCount
                    /\ nrCount = 0 /\ curReq.Slave # 0
                    /\ Modbus_OSL_Attempt = Modbus_OSL_Max_Attempts
                    /\ Modbus_OSL_Attempt' = 1
                    /\ Modbus_OSL_Forward_Flag' = 0
                    /\ Modbus_OSL_MainState' = "MODBUS_OSL_IDLE")
           /\ (nrCount = 1
                 => /\ Modbus_OSL_Forward_Flag = 0
                    /\ (Transmits => Dequeues /\ fifo # <<>> /\ curReq' = Head(fifo)
                                     /\ txCount' = 1 /\ nrCount' = 0)
                    /\ (~Dequeues => UNCHANGED <<txCount, nrCount, curReq, wire>>))
    ]_vars

\* C4 witness: with N = 2 the request has been sent twice, the application
\* has been told once that there is no response, and the engine is idle with
\* the attempt counter back at 1.
C4_Witness ==
  /\ ev = "poll_retry" /\ Modbus_OSL_Max_Attempts = 2
  /\ txCount = 2 /\ nrCount = 1 /\ dlvCount = 0
  /\ Modbus_OSL_Attempt = 1 /\ Modbus_OSL_Forward_Flag = 0
  /\ Modbus_OSL_MainState = "MODBUS_OSL_IDLE"

\* C5: in WAITREPLY with the response timer running, the poll that finds a
\* completed frame from the expected slave stops timer 2; with a good CRC it
\* goes to PROCESSING and hands the PDU (the frame without address and CRC)
\* to the application, once; the application settling brings the engine to
\* IDLE with Modbus_OSL_Attempt = 1 and the resend flag clear; and until the
\* next dequeue nothing is retransmitted and no no-response is notified.
C5_ValidReplySettles ==
  [][ /\ (ev' = "poll_accept"
            => /\ rcbSlave' = Modbus_OSL_Expected_Slave
               /\ ~Timer2_On' /\ pc' = "rcb_proc")
      /\ (ev' = "poll_deliver"
            => /\ pc = "rcb_proc" /\ ~Timer2_On /\ Modbus_OSL_RTU_Control_CRC
               /\ Modbus_OSL_MainState' = "MODBUS_OSL_PROCESSING"
               /\ App_Msg'.len = Len(RxBuf) - 3
               /\ App_Msg'.msg = SubSeq(RxBuf, 2, Len(RxBuf) - 2)
               /\ dlvCount' = dlvCount + 1
               /\ pc' = "app_cb")
      /\ (pc = "app_cb"
            => /\ Modbus_OSL_MainState = "MODBUS_OSL_PROCESSING" /\ ~Timer2_On
               /\ UNCHANGED <<dlvCount, App_Msg, txCount, nrCount, Modbus_OSL_MainState>>
                  \/ ev' \in {"poll_settle", "poll_app_error"})
      /\ (ev' = "poll_settle"
            => /\ Modbus_OSL_MainState' = "MODBUS_OSL_IDLE"
               /\ Modbus_OSL_Attempt' = 1
               /\ Modbus_OSL_Forward_Flag' = 0
               /\ ~inflight' /\ ~Timer2_On'
               /\ UNCHANGED <<dlvCount, txCount, nrCount>>)
      /\ (Configured /\ ~inflight
            => /\ Modbus_OSL_Forward_Flag = 0
               /\ (Transmits => Dequeues)
               /\ (~Dequeues => UNCHANGED <<dlvCount, txCount, nrCount, Modbus_OSL_Attempt>>))
    ]_vars

\* C5 witness: the first transmission of a unicast request was answered by a
\* good frame, which was delivered once and settled.
C5_Witness ==
  /\ ev = "poll_settle" /\ Modbus_OSL_MainState = "MODBUS_OSL_IDLE"
  /\ txCount = 1 /\ dlvCount = 1 /\ nrCount = 0
  /\ Modbus_OSL_Attempt = 1 /\ Modbus_OSL_Forward_Flag = 0
  /\ App_Msg.len = 1 /\ App_Msg.msg = <<1>>

C7_PollReturnValue ==
  [][ ev' \in PollSteps /\ pc' = "main"
        => /\ ret' \in {0, 1}
           /\ (ret' = 0 <=> /\ pc = "main"
                            /\ Modbus_OSL_MainState = "MODBUS_OSL_IDLE"
                            /\ Modbus_OSL_Forward_Flag = 0
                            /\ fifo = <<>>)
           /\ (ret' = 0 => UNCHANGED progVars)
    ]_vars

\* C7 witness: a poll of the idle engine with nothing queued has returned 0
\* after a request had been dealt with.
C7_Witness ==
  /\ ev = "poll_idle_empty" /\ ret = 0 /\ txCount = 1
  /\ Modbus_OSL_MainState = "MODBUS_OSL_IDLE" /\ fifo = <<>>

\* C8: a request is taken from the outbound queue only by a poll in IDLE with
\* the resend flag clear and no request in flight; while a request is in
\* flight (from its dequeue to its delivery being settled, its attempts being
\* exhausted or its broadcast delay ending) the current request stays the
\* same and whatever is put on the line is the frame of that request.
C8_OneRequestInFlight ==
  [][ /\ (Dequeues \/ Len(fifo') < Len(fifo) \/ curReq' # curReq
            => /\ Dequeues /\ pc = "main"
               /\ Modbus_OSL_MainState = "MODBUS_OSL_IDLE"
               /\ Modbus_OSL_Forward_Flag = 0
               /\ ~inflight /\ inflight'
               /\ fifo # <<>> /\ curReq' = Head(fifo) /\ fifo' = Tail(fifo))
      /\ (inflight
            => /\ curReq' = curReq
               /\ Len(fifo') >= Len(fifo)
               /\ (Transmits => /\ ev' = "poll_resend"
                                /\ wire' = Modbus_OSL_RTU_Mount_ADU(curReq.pdu, curReq.Slave,
                                                                    Len(curReq.pdu))))
      /\ (inflight /\ ~inflight'
            => \/ ev' = "poll_settle" /\ dlvCount >= 1
               \/ ev' = "poll_retry" /\ nrCount' = nrCount + 1
               \/ ev' = "timer2" /\ curReq.Slave = 0)
    ]_vars

\* C8 witness: a second request was queued while the first was being resent,
\* and it is still in the queue.
C8_Witness ==
  /\ ev = "poll_resend" /\ inflight /\ txCount = 2
  /\ Len(fifo) = 1 /\ Head(fifo) # curReq

\* C9: the resend flag is set only by the retry tracker, which leaves the
\* engine in IDLE; while it is set nothing is put on the line except by the
\* IDLE poll that clears it, and that poll retransmits the current request
\* and takes nothing from the queue; a transmission that is not a dequeue
\* happens only with the flag set, so one setting gives one retransmission.
C9_ResendFlagConsumedOnce ==
  [][ /\ Modbus_OSL_Forward_Flag \in {0, 1}
      /\ (Modbus_OSL_Forward_Flag = 0 /\ Modbus_OSL_Forward_Flag' = 1
            => /\ ev' = "poll_retry"
               /\ Modbus_OSL_Attempt' = Modbus_OSL_Attempt + 1)
      /\ (Modbus_OSL_Forward_Flag = 1
            => /\ pc = "main" /\ Modbus_OSL_MainState = "MODBUS_OSL_IDLE"
               /\ (ev' \in PollSteps
                     => /\ ev' = "poll_resend"
                        /\ Modbus_OSL_Forward_Flag' = 0
                        /\ txCount' = txCount + 1
                        /\ wire' = Modbus_OSL_Req_ADU
                        /\ UNCHANGED <<fifo, curReq, Modbus_OSL_Req_ADU, Modbus_OSL_Attempt>>)
               /\ (ev' \notin PollSteps
                     => UNCHANGED <<Modbus_OSL_Forward_Flag, Modbus_OSL_MainState,
                                    txCount, wire>>))
      /\ (Transmits /\ ~Dequeues
            => Modbus_OSL_Forward_Flag = 1 /\ Modbus_OSL_Forward_Flag' = 0)
      /\ (Modbus_OSL_Forward_Flag = 0 /\ ev' \in PollSteps /\ ~Dequeues
            => txCount' = txCount /\ wire' = wire)
    ]_vars

\* C9 witness: the flag set by one failure was consumed by one resend, and a
\* later poll without a new failure has not sent again.
C9_Witness ==
  /\ ev = "poll_no_frame" /\ Modbus_OSL_MainState = "MODBUS_OSL_WAITREPLY"
  /\ Modbus_OSL_Forward_Flag = 0 /\ Modbus_OSL_Attempt = 2 /\ txCount = 2

\* C10: UART1IntHandler hands a character to the RTU reception machine only
\* in WAITREPLY and in ERROR; in every other state it leaves the reception
\* buffer, the RTU state, the frame validity, the frame-complete flag and the
\* main state (and the character timers) as they were; and the reception
\* buffer changes only by a character interrupt in WAITREPLY or ERROR.
C10_CharsOnlyInWaitReplyOrError ==
  [][ /\ (ev' = "uart" /\ Modbus_OSL_MainState \notin {"MODBUS_OSL_WAITREPLY", "MODBUS_OSL_ERROR"}
            => UNCHANGED <<RxBuf, Modbus_OSL_State, Modbus_OSL_Frame,
                           Modbus_OSL_Processing_Flag, Modbus_OSL_MainState,
                           T15_On, T35_On>>)
      /\ (RxBuf' # RxBuf
            => /\ ev' = "uart"
               /\ Modbus_OSL_MainState \in {"MODBUS_OSL_WAITREPLY", "MODBUS_OSL_ERROR"})
    ]_vars

\* C10 witness: a character has arrived while a delivered reply was being
\* processed, and the reception buffer still holds the delivered frame.
C10_Witness ==
  /\ ev = "uart" /\ Modbus_OSL_MainState = "MODBUS_OSL_PROCESSING"
  /\ pc = "app_cb" /\ Len(RxBuf) = MaxRx /\ Modbus_OSL_RTU_Control_CRC

\* Interrupt status values that report a parity fault on the character.
ParityStatus == {"UART_INT_PE", "UART_INT_RX_PE"}

\* C11: a character with a parity fault that arrives while the reception
\* machine is idle or receiving (engine in WAITREPLY or ERROR, RTU mode)
\* leaves Modbus_OSL_Frame = NOK at once and is itself handed to the
\* reception machine, which buffers it and restarts the character timers.
C11_ParityMarksAndDrains ==
  [][ \A ulStatus \in ParityStatus : \A c \in 0 .. 255 :
        ( /\ UartCharAccepted
          /\ Modbus_OSL_Mode = "MODBUS_OSL_MODE_RTU"
          /\ Modbus_OSL_State \in {"MODBUS_OSL_RTU_IDLE", "MODBUS_OSL_RTU_RECEPTION"}
          /\ UART1IntHandler(ulStatus, c) )
        => /\ Modbus_OSL_Frame' = "MODBUS_OSL_Frame_NOK"
           /\ RxBuf' = (IF Modbus_OSL_State = "MODBUS_OSL_RTU_IDLE"
                        THEN <<c>> ELSE Append(RxBuf, c))
           /\ T15_On' /\ T35_On'
    ]_vars

\* C12: the frame-complete flag is raised only by the end-of-frame silence
\* (3.5T) with the engine in WAITREPLY; a frame completed in any other state
\* (the response timer expired first) raises no flag, has no frame-complete
\* signal pending for it, and is never delivered to the application.
C12_CompletionHonouredOnlyInWaitReply ==
  [][ /\ (Modbus_OSL_Processing_Flag = 0 /\ Modbus_OSL_Processing_Flag' = 1
            => /\ ev' = "t35"
               /\ Modbus_OSL_State = "MODBUS_OSL_RTU_CONTROLANDWAITING"
               /\ Modbus_OSL_MainState = "MODBUS_OSL_WAITREPLY")
      /\ (ev' = "t35" /\ Modbus_OSL_State = "MODBUS_OSL_RTU_CONTROLANDWAITING"
                      /\ Modbus_OSL_MainState # "MODBUS_OSL_WAITREPLY"
            => Modbus_OSL_Processing_Flag' = Modbus_OSL_Processing_Flag)
      /\ (lateFrame' => Modbus_OSL_Processing_Flag' = 0)
      /\ (ev' = "poll_deliver" => ~lateFrame)
    ]_vars

\* C12 witness: the reply completed after the response timer had expired, and
\* after the resend the poll has delivered that frame to the application.
C12_Witness ==
  /\ ev = "poll_deliver" /\ lateFrame /\ dlvCount = 1 /\ txCount = 2
  /\ Modbus_OSL_MainState = "MODBUS_OSL_PROCESSING"
  /\ Modbus_OSL_State = "MODBUS_OSL_RTU_EMISSION"

\* The reception machine is in its idle sub-state.
ReceptionIdle ==
  Modbus_OSL_State \in {"MODBUS_OSL_RTU_IDLE", "MODBUS_OSL_ASCII_IDLE"}

\* C13: in ERROR a poll that finds the reception machine not idle changes
\* nothing and returns 1; with the poll at its entry nothing but that test
\* moves the engine out of ERROR or touches the attempt count, the resend
\* flag or the no-response notification; the poll that finds the machine idle
\* calls the retry tracker once (one more attempt with the resend flag set, or
\* one no-response notification with the count back at 1), sets IDLE and
\* returns 1.
C13_ErrorWaitsForReceptionIdle ==
  [][ /\ (ev' = "poll_error_wait"
            => /\ Modbus_OSL_MainState = "MODBUS_OSL_ERROR" /\ ~ReceptionIdle
               /\ ret' = 1 /\ UNCHANGED progVars)
      /\ (Modbus_OSL_MainState = "MODBUS_OSL_ERROR" /\ pc = "main"
            => /\ UNCHANGED <<Modbus_OSL_MainState, Modbus_OSL_Attempt,
                              Modbus_OSL_Forward_Flag, nrCount, txCount>>
               /\ (ev' \in PollSteps
                     => ev' = (IF ReceptionIdle THEN "poll_error_idle"
                               ELSE "poll_error_wait")))
      /\ (ev' = "poll_error_idle"
            => /\ Modbus_OSL_MainState = "MODBUS_OSL_ERROR" /\ ReceptionIdle
               /\ pc = "main" /\ pc' = "err_retry")
      /\ (pc = "err_retry"
            => /\ Modbus_OSL_MainState = "MODBUS_OSL_ERROR"
               /\ \/ UNCHANGED <<Modbus_OSL_MainState, Modbus_OSL_Attempt,
                                 Modbus_OSL_Forward_Flag, nrCount, pc>>
                  \/ ev' = "poll_retry")
      /\ (ev' = "poll_retry"
            => /\ pc = "err_retry" /\ pc' = "main" /\ ret' = 1
               /\ Modbus_OSL_MainState' = "MODBUS_OSL_IDLE"
               /\ \/ /\ Modbus_OSL_Attempt' = Modbus_OSL_Attempt + 1
                     /\ Modbus_OSL_Forward_Flag' = 1 /\ nrCount' = nrCount
                  \/ /\ nrCount' = nrCount + 1 /\ Modbus_OSL_Attempt' = 1
                     /\ Modbus_OSL_Forward_Flag' = Modbus_OSL_Forward_Flag)
    ]_vars

\* C13 witness: a poll in ERROR has found the reception machine receiving a
\* straggling frame and has returned 1 with the engine still in ERROR.
C13_Witness ==
  /\ ev = "poll_error_wait" /\ ret = 1 /\ pc = "main"
  /\ Modbus_OSL_MainState = "MODBUS_OSL_ERROR"
  /\ Modbus_OSL_State = "MODBUS_OSL_RTU_RECEPTION" /\ Len(RxBuf) = 2
  /\ Modbus_OSL_Attempt = 1 /\ nrCount = 0 /\ Modbus_OSL_Forward_Flag = 0

C15_FatalHaltsProgress ==
  [][ /\ (fatalCode' # 0 => halted')
      /\ (fatalCode # 0
            => /\ UNCHANGED <<Modbus_OSL_MainState, wire, txCount, fifo, curReq,
                              dlvCount, App_Msg, fatalCode>>
               /\ ev' \notin {"poll_send", "poll_resend", "poll_deliver"}) ]_vars

\* C15 witness: the timer-2 guard has triggered in MODBUS_OSL_IDLE between two
\* polls, with a request queued that the next poll would have put on the line.
C15_Witness ==
  /\ fatalCode = 110 /\ halted /\ pc = "main"
  /\ Modbus_OSL_MainState = "MODBUS_OSL_IDLE" /\ fifo # <<>>
  /\ Modbus_OSL_Mode = "MODBUS_OSL_MODE_RTU"

\* What the program shows outside the processor: the frame on the line and
\* LED1.
OperatorVisible == <<wire, led1>>

\* C16: when a fatal guard triggers, its code (100 or 110) is recorded in what
\* the operator can observe; the step that enters Modbus_Fatal_Error must then
\* change it, or no reading of it tells the halted engine from the running one.
C16_CodeReported ==
  [][ (fatalCode = 0 /\ fatalCode' # 0) => OperatorVisible' # OperatorVisible ]_vars

\* C16 witness: the character handler has found the serial mode undetermined
\* while a reply was awaited; LED1, lit on entry of the handler, stays lit.
C16_Witness ==
  /\ fatalCode = 100 /\ halted /\ led1
  /\ Modbus_OSL_MainState = "MODBUS_OSL_WAITREPLY" /\ Timer2_On

C18_InitPostcondition ==
  (ev = "init" /\ Modbus_OSL_Mode = "MODBUS_OSL_MODE_RTU")
    => /\ Modbus_OSL_MainState = "MODBUS_OSL_IDLE"
       /\ Modbus_OSL_Attempt = 1
       /\ Modbus_OSL_Frame = "MODBUS_OSL_Frame_OK"
       /\ Modbus_OSL_Forward_Flag = 0
       /\ Modbus_OSL_Processing_Flag = 0

\* C18 witness: Modbus_OSL_Init has returned in RTU mode at 1200 baud with
\* the largest number of attempts.
C18_Witness ==
  /\ ev = "init" /\ pc = "main" /\ Modbus_OSL_Mode = "MODBUS_OSL_MODE_RTU"
  /\ Modbus_OSL_Baudrate = 1200 /\ Modbus_OSL_Max_Attempts = 255

\* The tabulated durations in tenths of a second.
ResponseTenths(Baudrate) ==
  CASE Baudrate = 1200 -> 40
    [] Baudrate = 2400 -> 30
    [] Baudrate = 4800 -> 20
    [] Baudrate = 9600 -> 10
    [] OTHER           -> 5

BroadcastTenths(Baudrate) ==
  CASE Baudrate = 1200 -> 25
    [] Baudrate = 2400 -> 15
    [] Baudrate = 4800 -> 8
    [] Baudrate = 9600 -> 4
    [] OTHER           -> 2

\* C19: Modbus_OSL_Init leaves in the timer counts exactly the tabulated
\* durations at the rate of the clock, as unbounded arithmetic gives them (so
\* no 32-bit product has wrapped), and the broadcast delay is strictly shorter
\* than the response timeout.
C19_TimeoutTable ==
  Configured
    => /\ Modbus_OSL_Timeout_R
            = (SysCtlClockGet * ResponseTenths(Modbus_OSL_Baudrate)) \div 10
       /\ Modbus_OSL_Timeout_B
            = (SysCtlClockGet * BroadcastTenths(Modbus_OSL_Baudrate)) \div 10
       /\ Modbus_OSL_Timeout_B < Modbus_OSL_Timeout_R
       /\ Modbus_OSL_Timeout_R \div 65536 < 65536
       /\ Modbus_OSL_Baudrate \in BaudValues \ {0}

\* C19 witness: configured with BDEFAULT or 19200, the rate is 19200, the
\* response timeout half a second and the broadcast delay a fifth of a second.
C19_Witness ==
  /\ Configured /\ Modbus_OSL_Baudrate = 19200
  /\ 2 * Modbus_OSL_Timeout_R = SysCtlClockGet
  /\ 5 * Modbus_OSL_Timeout_B = SysCtlClockGet

\* C20: whenever a request is put on the line and the engine enters
\* MODBUS_OSL_WAITREPLY the frame is marked OK: a NOK mark left by a parity
\* fault in an earlier frame never meets the reply of a later transmission.
C20_FrameOkOnWaitReply ==
  [][ (Transmits /\ Modbus_OSL_MainState' = "MODBUS_OSL_WAITREPLY")
        => Modbus_OSL_Frame' = "MODBUS_OSL_Frame_OK" ]_vars

\* C20 witness: a repeated request has just been put on the line, the engine
\* awaits its reply with an empty reception machine, and the frame is marked
\* NOK already.
C20_Witness ==
  /\ ev = "poll_resend" /\ Modbus_OSL_MainState = "MODBUS_OSL_WAITREPLY"
  /\ Modbus_OSL_State = "MODBUS_OSL_RTU_EMISSION" /\ Timer2_On
  /\ Modbus_OSL_Frame = "MODBUS_OSL_Frame_NOK"

\* C21: for every PDU of length L with L + 3 <= 256, Modbus_OSL_Output records
\* the frame length L + 3 and Modbus_OSL_Send puts exactly these L + 3 bytes
\* on the line in order: the address, the PDU, the CRC low byte, the CRC high
\* byte.
C21_FrameLengthExact ==
  [][ (Transmits /\ Modbus_OSL_Mode = "MODBUS_OSL_MODE_RTU")
        => LET body == <<curReq'.Slave>> \o curReq'.pdu IN
           /\ Modbus_OSL_L_Req_ADU' = Len(curReq'.pdu) + 3
           /\ wire' = body \o <<CRCLo(body), CRCHi(body)>> ]_vars

\* C21 witness: a request with a PDU of 253 bytes has been given to
\* Modbus_OSL_Output; the ADU of 256 bytes is mounted, the length recorded is
\* 0 and nothing is on the line.
C21_Witness ==
  /\ ev = "poll_send" /\ Len(curReq.pdu) = ADU_Size - 3
  /\ Len(Modbus_OSL_Req_ADU) = ADU_Size
  /\ Modbus_OSL_L_Req_ADU = 0 /\ wire = <<>>
  /\ Modbus_OSL_MainState = "MODBUS_OSL_WAITREPLY"

\* C22: the PDU delivered to the application is the accepted frame (n bytes
\* without its CRC) with the slave number at offset 0 dropped: byte i - 1 of
\* the PDU is byte i of the frame for 1 <= i < n, and its length is n - 1.
C22_DeliveredPduIsFrameTail ==
  [][ ev' = "poll_deliver"
        => LET n == Len(RxBuf) - 2 IN
           /\ n >= 1
           /\ App_Msg'.len = n - 1
           /\ Len(App_Msg'.msg) = n - 1
           /\ \A i \in 1 .. n - 1 : App_Msg'.msg[(i - 1) + 1] = RxBuf[i + 1] ]_vars

\* C22 witness: a frame of slave 1 with a PDU of MaxRx - 3 bytes has been
\* delivered.
C22_Witness ==
  /\ ev = "poll_deliver" /\ Len(RxBuf) = MaxRx /\ RxBuf[1] = 1
  /\ App_Msg.len = MaxRx - 3 /\ App_Msg.msg = SubSeq(RxBuf, 2, MaxRx - 2)
  /\ App_Msg.len >= 1

\* C23: the read-and-clear of the frame-complete flag is one step with respect
\* to the handlers: the flag goes from 1 to 0 only in a read that returns it,
\* every read leaves it clear and returns 1 exactly when it was set, and a
\* completion in WAITREPLY leaves it set for the next read.
C23_ReadAndClearAtomic ==
  [][ /\ ((Modbus_OSL_Processing_Flag = 1 /\ Modbus_OSL_Processing_Flag' = 0)
            => (ev' = "poll_flag" /\ pc' = "rcb_slave"))
      /\ (ev' \in {"poll_flag", "poll_no_frame"}
            => /\ Modbus_OSL_Processing_Flag' = 0
               /\ (ev' = "poll_flag" <=> Modbus_OSL_Processing_Flag = 1))
      /\ ((ev' = "t35" /\ Modbus_OSL_State = "MODBUS_OSL_RTU_CONTROLANDWAITING"
           /\ Modbus_OSL_MainState = "MODBUS_OSL_WAITREPLY")
            => Modbus_OSL_Processing_Flag' = 1) ]_vars

\* C23 witness: a poll in WAITREPLY has read the flag clear and returned, and
\* the frame has been completed since: the flag is set for the next read.
C23_Witness ==
  /\ ev = "t35" /\ Modbus_OSL_Processing_Flag = 1 /\ pc = "main" /\ ret = 1
  /\ Modbus_OSL_MainState = "MODBUS_OSL_WAITREPLY"
  /\ Modbus_OSL_State = "MODBUS_OSL_RTU_IDLE" /\ Len(RxBuf) = MaxRx
  /\ ~lateFrame /\ txCount = 1 /\ dlvCount = 0

\* C24: a completed frame whose first byte is not the expected slave costs
\* the frame-complete flag its read has cleared and nothing else: the compare
\* that rejects it delivers nothing and leaves the state, timer 2, the attempt
\* counter and the resend flag as they are, and in WAITREPLY the request
\* stays in flight with the response timer running.
C24_ForeignFrameIgnored ==
  [][ ev' = "poll_other_slave"
        => /\ pc = "rcb_slave" /\ pc' = "main" /\ ret' = 1
           /\ Modbus_OSL_RTU_Char_Get(0) # Modbus_OSL_Expected_Slave
           /\ UNCHANGED <<oslVars, hwVars, RxBuf, appVars, txCount, nrCount, dlvCount,
                          inflight>>
           /\ (Modbus_OSL_MainState = "MODBUS_OSL_WAITREPLY" => (Timer2_On' /\ inflight'))
           /\ (Modbus_OSL_MainState # "MODBUS_OSL_WAITREPLY"
                 => (Modbus_OSL_MainState = "MODBUS_OSL_ERROR" /\ ~Timer2_On)) ]_vars

\* C24 witness: the frame of slave 2 was completed while slave 1 was awaited;
\* the poll has consumed the flag and returned, the engine awaits on.
C24_Witness ==
  /\ ev = "poll_other_slave" /\ pc = "main" /\ ret = 1
  /\ Modbus_OSL_Expected_Slave = 1 /\ Len(RxBuf) = MaxRx /\ RxBuf[1] = 2
  /\ Modbus_OSL_MainState = "MODBUS_OSL_WAITREPLY" /\ Timer2_On
  /\ Modbus_OSL_Processing_Flag = 0 /\ Modbus_OSL_Attempt = 1 /\ dlvCount = 0

\* C25: every transmission that puts the engine in WAITREPLY (fresh send or
\* resend) finds the frame-complete flag clear, so a completion raised during
\* an earlier attempt does not reach the reads of the new attempt.
C25_FlagClearOnTransmit ==
  [][ (Transmits /\ Modbus_OSL_MainState' = "MODBUS_OSL_WAITREPLY")
        => Modbus_OSL_Processing_Flag' = 0 ]_vars

\* C25 witness: the request has been resent and the engine awaits the reply
\* with the frame-complete flag of the first attempt still raised.
C25_Witness ==
  /\ ev = "poll_resend" /\ txCount = 2
  /\ Modbus_OSL_MainState = "MODBUS_OSL_WAITREPLY" /\ Timer2_On
  /\ Modbus_OSL_Processing_Flag = 1 /\ ~lateFrame

(* ------------------------------- liveness ------------------------------ *)

\* One step of the driver loop's call of Modbus_OSL_Serial_Comm.
Poll ==
  \/ Modbus_OSL_Serial_Comm
  \/ Serial_Comm_Error_Retry
  \/ Receive_CallBack_Slave
  \/ Receive_CallBack_Process
  \/ AppCallBack

\* The poll in MODBUS_OSL_ERROR that finds the reception machine idle.
PollErrorIdle ==
  /\ Modbus_OSL_MainState = "MODBUS_OSL_ERROR"
  /\ Modbus_OSL_Serial_Comm
  /\ ev' = "poll_error_idle"

\* The driver loop calls Modbus_OSL_Serial_Comm for ever and a call runs to
\* its end; a poll comes round while the reception machine rests between two
\* frames; the timers that are running expire and their interrupts are served.
Fairness ==
  /\ WF_vars(Poll)
  /\ SF_vars(PollErrorIdle)
  /\ WF_vars(Timer2IntHandler)
  /\ WF_vars(Modbus_OSL_RTU_15T)
  /\ WF_vars(Modbus_OSL_RTU_35T)

SpecLive == Init /\ [][Next]_vars /\ Fairness

RtuMode == Modbus_OSL_Mode = "MODBUS_OSL_MODE_RTU"

\* C26 (progress): in RTU mode a unicast request that is in flight is
\* eventually settled (delivered and accepted by the application, or given up
\* with the no-response notification), and the engine is in MODBUS_OSL_IDLE
\* again and again.
C26_Progress ==
  /\ (RtuMode /\ inflight /\ Modbus_OSL_Expected_Slave # 0) ~> ~inflight
  /\ (RtuMode /\ Configured) ~> (Modbus_OSL_MainState = "MODBUS_OSL_IDLE")

\* C26: in RTU mode, under the fairness of SpecLive, every unicast request in
\* flight is eventually settled and the engine returns to MODBUS_OSL_IDLE
\* again and again (C26_Progress), and the no-response notification comes
\* after at most Modbus_OSL_Max_Attempts transmissions of the request.
C26_SettlesWithinAttempts ==
  /\ C26_Progress
  /\ [][ (RtuMode /\ nrCount' > nrCount) => txCount <= Modbus_OSL_Max_Attempts ]_vars

\* C26 witness: configured with no attempt allowed, the request was put on
\* the line once and then given up with the no-response notification.
C26_Witness ==
  /\ RtuMode /\ Modbus_OSL_Max_Attempts = 0
  /\ ev = "poll_retry" /\ txCount = 1 /\ nrCount = 1 /\ ~inflight
  /\ Modbus_OSL_MainState = "MODBUS_OSL_IDLE"

pollOwned == <<Modbus_OSL_Attempt, Modbus_OSL_Forward_Flag, Modbus_OSL_Expected_Slave,
               Modbus_OSL_Req_ADU, Modbus_OSL_L_Req_ADU>>

\* The step is taken by an interrupt handler (timer 2, UART, 1.5T, 3.5T).
HandlerStep == ev' \in {"timer2", "uart", "t15", "t35"}

\* C28: no interrupt handler changes the attempt count, the resend flag, the
\* expected slave, the request frame or its length, and the timer-2 handler
\* changes of the engine's variables only the main state, from WAITREPLY to
\* ERROR or from DELAY to IDLE.
C28_HandlersLeavePollState ==
  [][ /\ (HandlerStep => UNCHANGED <<pollOwned, pollVars, Modbus_OSL_Max_Attempts, wire>>)
      /\ (ev' = "timer2"
            => /\ \/ /\ Modbus_OSL_MainState = "MODBUS_OSL_WAITREPLY"
                     /\ Modbus_OSL_MainState' = "MODBUS_OSL_ERROR"
                  \/ /\ Modbus_OSL_MainState = "MODBUS_OSL_DELAY"
                     /\ Modbus_OSL_MainState' = "MODBUS_OSL_IDLE"
               /\ UNCHANGED <<cfgVars, Modbus_OSL_Frame, Modbus_OSL_Processing_Flag,
                              Modbus_OSL_State, RxBuf, appVars, halted>>)
    ]_vars

\* C28 witness: the response timer has expired during the second attempt and
\* its handler has left ERROR with the second attempt's count, a clear resend
\* flag and the request frame in place.
C28_Witness ==
  /\ ev = "timer2" /\ Modbus_OSL_MainState = "MODBUS_OSL_ERROR" /\ ~Timer2_On
  /\ Modbus_OSL_Attempt = 2 /\ Modbus_OSL_Forward_Flag = 0 /\ txCount = 2
  /\ Modbus_OSL_Expected_Slave = 1 /\ Modbus_OSL_L_Req_ADU = 4
  /\ Modbus_OSL_Req_ADU = wire

\* C29: in every state a set resend flag comes with an attempt count of at
\* least 2, within the maximum, and with the engine in MODBUS_OSL_ERROR or
\* MODBUS_OSL_IDLE on a unicast request (so never in WAITREPLY or DELAY); a
\* poll that has just resent has cleared the flag and has resent a unicast
\* request, never a broadcast.
C29_ResendFlagInvariant ==
  /\ Modbus_OSL_Forward_Flag \in {0, 1}
  /\ (Modbus_OSL_Forward_Flag # 0
        => /\ Modbus_OSL_Attempt >= 2
           /\ Modbus_OSL_Attempt <= Modbus_OSL_Max_Attempts
           /\ Modbus_OSL_MainState \in {"MODBUS_OSL_ERROR", "MODBUS_OSL_IDLE"}
           /\ Modbus_OSL_Expected_Slave # 0
           /\ inflight)
  /\ (ev = "poll_resend"
        => /\ Modbus_OSL_Forward_Flag = 0
           /\ Modbus_OSL_Expected_Slave # 0
           /\ Modbus_OSL_MainState = "MODBUS_OSL_WAITREPLY"
           /\ txCount = Modbus_OSL_Attempt)

\* C29 witness: the retry tracker has just counted the second attempt of a
\* unicast request and set the resend flag, the engine back in IDLE.
C29_Witness ==
  /\ ev = "poll_retry" /\ Modbus_OSL_Forward_Flag = 1
  /\ Modbus_OSL_Attempt = 2 /\ Modbus_OSL_MainState = "MODBUS_OSL_IDLE"
  /\ Modbus_OSL_Expected_Slave = 1 /\ txCount = 1 /\ nrCount = 0

=========================================================================
